---- MODULE Spec2Model ----
(***************************************************************************)
(* A model of the Argh! interpreter of arghonaut                           *)
(* (src/arghonaut/interpreter.py, src/arghonaut/common.py), of the State   *)
(* class of src/arghonaut.py and of the batch loop of its main().          *)
(*                                                                         *)
(* Python values are modelled as follows.                                  *)
(*   - An int is an integer.  None is the reserved integer `None', which   *)
(*     lies below -MaxAbs; every int the model lets the program compute    *)
(*     or receive lies in -MaxAbs..MaxAbs, so the two never meet.  Every   *)
(*     place where Python raises TypeError on None tests for it first.     *)
(*   - A str is the sequence of its code points, so ord is the identity on *)
(*     a character and chr(i) is <<i>> where Python's chr accepts i.       *)
(*   - self.error is a record [msg, arg]: the fixed text of the message    *)
(*     and the formatted part; NoError stands for None.                    *)
(*   - An exception leaving a call is recorded in `raised'; the object     *)
(*     keeps whatever the call had assigned before raising.                *)
(***************************************************************************)
EXTENDS Integers, Sequences, FiniteSets, TLC

\* ---------------------------------------------------------------- constants

COLUMNS == 80

EOT == 4

\* chr(i) is defined for 0 <= i <= 0x10FFFF and raises ValueError otherwise.
MaxUnicode == 1114111

None == -9999999

\* ------------------------------------------------------------------- bounds

MaxStack == 3
MaxOut == 3
MaxQueue == 2
MaxAbs == 2000000
MaxRows == 3

\* ------------------------------------------------------------------ strings

\* ord() of the characters the programs below are written in.
ord(c) ==
    CASE c = " " -> 32  [] c = "!" -> 33  [] c = "#" -> 35
      [] c = "@" -> 64  [] c = "~" -> 126
      [] c = "(" -> 40  [] c = ")" -> 41  [] c = "_" -> 95
      [] c = "{" -> 123 [] c = "}" -> 125
      [] c = "b" -> 98  [] c = "c" -> 99  [] c = "i" -> 105 [] c = "n" -> 110
      [] c = "o" -> 111 [] c = "t" -> 116
      [] c = "A" -> 65  [] c = "D" -> 68  [] c = "E" -> 69  [] c = "F" -> 70
      [] c = "G" -> 71  [] c = "H" -> 72  [] c = "J" -> 74  [] c = "K" -> 75
      [] c = "L" -> 76  [] c = "P" -> 80  [] c = "R" -> 82  [] c = "S" -> 83
      [] c = "X" -> 88
      [] c = "a" -> 97  [] c = "d" -> 100 [] c = "e" -> 101 [] c = "f" -> 102
      [] c = "g" -> 103 [] c = "h" -> 104 [] c = "j" -> 106 [] c = "k" -> 107
      [] c = "l" -> 108 [] c = "p" -> 112 [] c = "q" -> 113 [] c = "r" -> 114
      [] c = "s" -> 115 [] c = "x" -> 120 [] c = "z" -> 122

\* A Python str written as a TLA+ string literal: its code points in order.
Str(lit) == [i \in 1..Len(lit) |-> ord(SubSeq(lit, i, i))]

\* The characters of the instruction alphabet and five that are not in it.
Alphabet ==
    {"h", "l", "k", "j", "H", "L", "K", "J", "P", "p", "G", "g", "D", "d",
     "E", "e", "F", "f", "A", "a", "R", "r", "S", "s", "X", "x", "#", "q",
     "z", " ", "!", "@", "~"}

\* sym[c]: the character code the dispatch of step compares with, ord(c).
sym == [c \in Alphabet |-> ord(c)]

\* ------------------------------------------------------------------- common

\* is_chr(char): chr(char) does not raise ValueError.  (chr(None) raises
\* TypeError, which is_chr does not catch: the callers test for None.)
is_chr(char) == 0 <= char /\ char <= MaxUnicode

\* is_printable(char) with long=False.
is_printable(char) == 32 <= char /\ char <= 126

\* to_printable(char) with long=False, the only mode the interpreter uses.
to_printable(char) ==
    IF is_printable(char) THEN <<char>>
    ELSE IF 0 <= char /\ char <= 9 THEN <<48 + char>>
    ELSE IF char = 10 THEN <<110>>        \* ord("\n") -> "n"
    ELSE IF char = 13 THEN <<114>>        \* ord("\r") -> "r"
    ELSE IF char = 9 THEN <<116>>         \* ord("\t") -> "t"
    ELSE IF char = EOT THEN <<69>>        \* "E"
    ELSE IF char < 0 THEN <<45>>          \* "-"
    ELSE <<63>>                           \* "?"

\* -------------------------------------------------------------------- state

VARIABLES
    code,          \* self.code: rows of COLUMNS character codes
    x, y,          \* instruction pointer
    dx, dy,        \* direction
    stack,         \* self.stack, top last
    stdout,        \* self.stdout
    stdin,         \* self.stdin, head first
    needs_input,   \* self.needs_input
    error,         \* self.error
    raised,        \* the exception that left the last call, or NoExc
    scan,          \* what the last call's _jump did, or NoScan
    last,          \* the name of the last call
    began,         \* what the last call found when it began
    supplied,      \* the codes given to input_char since __init__ or reset
    consumed,      \* the codes G and g have taken since __init__ or reset
    program,       \* the lines read from the source file
    mono,          \* the State object of src/arghonaut.py, as a record
    batch          \* the batch loop of src/arghonaut.py: its position, eof

vars == <<code, x, y, dx, dy, stack, stdout, stdin, needs_input, error,
          raised, scan, last, began, supplied, consumed, program, mono, batch>>

NoError == [msg |-> "None", arg |-> <<>>]

Err(msg, arg) == [msg |-> msg, arg |-> arg]

NoExc == "none"

\* scan.ran: _jump got past its stack check; n: calls of _move it made;
\* x, y: the pointer where it returned; open: its while loop is running.
NoScan == [ran |-> FALSE, n |-> 0, x |-> 0, y |-> 0, open |-> FALSE]

\* The object as a record, for the methods below.  taken: the values popleft
\* has returned during the call.
Self ==
    [code |-> code, x |-> x, y |-> y, dx |-> dx, dy |-> dy, stack |-> stack,
     stdout |-> stdout, stdin |-> stdin, needs_input |-> needs_input,
     error |-> error, raised |-> NoExc, scan |-> NoScan, ret |-> TRUE,
     taken |-> <<>>]

\* ------------------------------------------------------------------ methods

\* An exception leaves the call.
Raise(s, exc) == [s EXCEPT !.raised = exc]

\* self.stack[-1] and self.stack.pop() on a stack that is not empty.
Top(s) == s.stack[Len(s.stack)]

Pop(s) == [s EXCEPT !.stack = SubSeq(@, 1, Len(@) - 1)]

Underflow(s) ==
    [s EXCEPT !.error = Err("tried to pop from an empty stack", <<>>)]

is_valid(s, px, py) ==
    /\ 0 <= py /\ py < Len(s.code)
    /\ 0 <= px /\ px < Len(s.code[py + 1])

\* self.code[self.y][self.x]; Python raises IndexError where the pointer is
\* on no cell, which step tests before it reads this.
instruction(s) == s.code[s.y + 1][s.x + 1]

\* The done property.  It is FALSE here where Python's raises IndexError
\* (no cell under the pointer, so no terminal symbol under it).
done(s) == is_valid(s, s.x, s.y) /\ instruction(s) = sym["q"]

\* Mutant of blocked: a set diagnostic no longer blocks.
blocked_ignores_error(s) == done(s) \/ s.needs_input

blocked(s) == done(s) \/ s.error # NoError \/ s.needs_input

get(s, px, py) == IF is_valid(s, px, py) THEN s.code[py + 1][px + 1] ELSE None

_get_above(s) == get(s, s.x, s.y - 1)

_get_below(s) == get(s, s.x, s.y + 1)

\* Mutant of put: a target off the grid is moved to the nearest row of it.
put_clamps(s, symbol, px, py) ==
    LET cy == IF py < 0 THEN 0
              ELSE IF py >= Len(s.code) THEN Len(s.code) - 1 ELSE py
    IN  IF is_valid(s, px, cy)
        THEN [s EXCEPT !.code[cy + 1][px + 1] = symbol]
        ELSE s

put(s, symbol, px, py) ==
    IF is_valid(s, px, py)
    THEN [s EXCEPT !.code[py + 1][px + 1] = symbol]
    ELSE s

_put_above(s, symbol) == put(s, symbol, s.x, s.y - 1)

\* Mutant of _put_below: it writes the cell under the pointer.
_put_below_at_pointer(s, symbol) == put(s, symbol, s.x, s.y)

_put_below(s, symbol) == put(s, symbol, s.x, s.y + 1)

\* Mutant of _move: the pointer wraps round the grid instead of failing.
_move_wraps(s) ==
    IF s.dx = 0 /\ s.dy = 0
    THEN [s EXCEPT !.error = Err("can't move; no direction specified", <<>>),
                   !.ret = FALSE]
    ELSE [s EXCEPT !.x = (s.x + s.dx) % COLUMNS,
                   !.y = (s.y + s.dy) % Len(s.code), !.ret = TRUE]

\* Mutant of _move: with no direction it reports success and sets nothing.
_move_without_direction(s) ==
    IF s.dx = 0 /\ s.dy = 0 THEN [s EXCEPT !.ret = TRUE]
    ELSE IF is_valid(s, s.x + s.dx, s.y + s.dy)
    THEN [s EXCEPT !.x = s.x + s.dx, !.y = s.y + s.dy, !.ret = TRUE]
    ELSE [s EXCEPT !.error = Err("moved out of bounds", <<>>), !.ret = FALSE]

\* _move: the result's ret is the value Python returns.
_move(s) ==
    IF s.dx = 0 /\ s.dy = 0
    THEN [s EXCEPT !.error = Err("can't move; no direction specified", <<>>),
                   !.ret = FALSE]
    ELSE IF is_valid(s, s.x + s.dx, s.y + s.dy)
    THEN [s EXCEPT !.x = s.x + s.dx, !.y = s.y + s.dy, !.ret = TRUE]
    ELSE [s EXCEPT !.error = Err("moved out of bounds", <<>>), !.ret = FALSE]

\* More trips than the while loop of _jump can make along one row or one
\* column of the grid.
ScanFuel(s) == COLUMNS + Len(s.code) + 1

\* One trip of the while loop of _jump, while it is running (scan.open): the
\* loop ends on a match, or it calls _move and ends if that fails.
jump_trip(s) ==
    IF ~s.scan.open THEN s
    ELSE IF instruction(s) = s.stack[Len(s.stack)]
    THEN [s EXCEPT !.scan.open = FALSE]
    ELSE LET m == _move(s) IN
         IF ~m.ret
         THEN [m EXCEPT !.error = Err("jumped out of bounds", <<>>),
                        !.scan.n = @ + 1, !.scan.open = FALSE]
         ELSE [m EXCEPT !.scan.n = @ + 1]

\* k trips of the loop, one after the other (evaluated by halving k; the
\* trips after the loop has ended change nothing and are skipped).
RECURSIVE jump_trips(_, _)
jump_trips(s, k) ==
    IF k = 0 THEN s
    ELSE IF k = 1 THEN jump_trip(s)
    ELSE LET half == jump_trips(s, k \div 2)
         IN  IF half.scan.open THEN jump_trips(half, k - (k \div 2))
             ELSE half

\* The while loop of _jump.  A result with scan.open is a loop that was
\* still running after ScanFuel trips.
jump_loop(s) == jump_trips([s EXCEPT !.scan.open = TRUE], ScanFuel(s))

\* Mutant of _jump: the scan starts on the cell of the jump instruction.
_jump_from_own_cell(s) ==
    IF s.stack = <<>>
    THEN [s EXCEPT !.error = Err("tried to pop from an empty stack", <<>>)]
    ELSE LET r == jump_loop(s)
         IN  [r EXCEPT !.scan.ran = TRUE, !.scan.x = r.x, !.scan.y = r.y]

_jump(s) ==
    IF s.stack = <<>>
    THEN [s EXCEPT !.error = Err("tried to pop from an empty stack", <<>>)]
    ELSE LET m == _move(s)
             n == [m EXCEPT !.scan.n = @ + 1]
             r == IF ~m.ret
                  THEN [n EXCEPT !.error = Err("jumped out of bounds", <<>>)]
                  ELSE jump_loop(n)
         IN  [r EXCEPT !.scan.ran = TRUE, !.scan.x = r.x, !.scan.y = r.y]

\* Mutant of _print: the failing branch has already written to stdout.
_print_writes_first(s, char) ==
    IF char = None THEN Raise(s, "TypeError")
    ELSE IF is_chr(char) THEN [s EXCEPT !.stdout = @ \o <<char>>]
    ELSE [s EXCEPT !.stdout = @ \o to_printable(char),
                   !.error = Err("tried to print unprintable character: ",
                                 to_printable(char))]

\* Mutant of _print: an earlier output is overwritten, not added to.
_print_overwrites(s, char) ==
    IF char = None THEN Raise(s, "TypeError")
    ELSE IF is_chr(char) THEN [s EXCEPT !.stdout = <<char>>]
    ELSE [s EXCEPT !.error = Err("tried to print unprintable character: ",
                                 to_printable(char))]

\* _print without the batch echo to the system's standard output.
_print(s, char) ==
    IF char = None THEN Raise(s, "TypeError")
    ELSE IF is_chr(char) THEN [s EXCEPT !.stdout = @ \o <<char>>]
    ELSE [s EXCEPT !.error = Err("tried to print unprintable character: ",
                                 to_printable(char))]

\* Mutant of input_char: it clears the diagnostic along with needs_input.
input_char_clears_error(s, char) ==
    [s EXCEPT !.stdin = Append(@, char), !.needs_input = FALSE,
              !.error = NoError]

\* Mutant of input_char: it leaves needs_input as it was.
input_char_keeps_flag(s, char) == [s EXCEPT !.stdin = Append(@, char)]

\* Mutant of input_char: the code is put at the head of the queue.
input_char_at_head(s, char) ==
    [s EXCEPT !.stdin = <<char>> \o @, !.needs_input = FALSE]

input_char(s, char) ==
    [s EXCEPT !.stdin = Append(@, char), !.needs_input = FALSE]

RECURSIVE input_string(_, _)
input_string(s, string) ==
    IF string = <<>> THEN s
    ELSE input_string(input_char(s, Head(string)), Tail(string))

\* Mutant of _delete: it pops without looking at the stack.
_delete_unchecked(s) == Pop(s)

_delete(s) == IF s.stack # <<>> THEN Pop(s) ELSE Underflow(s)

_duplicate(s) ==
    IF s.stack # <<>> THEN [s EXCEPT !.stack = Append(@, Top(s))]
    ELSE Underflow(s)

\* Mutant of _add: the sum is pushed and the old top is kept under it.
_add_pushes(s, addend) ==
    IF s.stack # <<>>
    THEN IF Top(s) = None \/ addend = None THEN Raise(s, "TypeError")
         ELSE [s EXCEPT !.stack = Append(@, Top(s) + addend)]
    ELSE Underflow(s)

_add(s, addend) ==
    IF s.stack # <<>>
    THEN IF Top(s) = None \/ addend = None THEN Raise(s, "TypeError")
         ELSE [s EXCEPT !.stack[Len(s.stack)] = @ + addend]
    ELSE Underflow(s)

_subtract(s, subtrahend) ==
    IF s.stack # <<>>
    THEN IF Top(s) = None \/ subtrahend = None THEN Raise(s, "TypeError")
         ELSE [s EXCEPT !.stack[Len(s.stack)] = @ - subtrahend]
    ELSE Underflow(s)

\* Mutant of _rotate: the components are swapped and neither is negated.
_rotate_swaps_only(s, clockwise) == [s EXCEPT !.dx = s.dy, !.dy = s.dx]

\* Mutant of _rotate: the two senses are exchanged.
_rotate_exchanged(s, clockwise) ==
    LET t == [s EXCEPT !.dx = s.dy, !.dy = s.dx]
    IN  IF clockwise THEN [t EXCEPT !.dy = -t.dy] ELSE [t EXCEPT !.dx = -t.dx]

\* Mutant of _rotate: a turn of 45 degrees.
_rotate_halfway(s, clockwise) ==
    IF clockwise THEN [s EXCEPT !.dx = s.dx - s.dy, !.dy = s.dx + s.dy]
    ELSE [s EXCEPT !.dx = s.dx + s.dy, !.dy = s.dy - s.dx]

_rotate(s, clockwise) ==
    LET t == [s EXCEPT !.dx = s.dy, !.dy = s.dx]
    IN  IF clockwise THEN [t EXCEPT !.dx = -t.dx] ELSE [t EXCEPT !.dy = -t.dy]

SetDir(s, ddx, ddy) == [s EXCEPT !.dx = ddx, !.dy = ddy]

\* Mutant of input_above: an empty queue is passed over.
input_above_never_waits(s) ==
    IF Len(s.stdin) > 0
    THEN _put_above([s EXCEPT !.stdin = Tail(@)], Head(s.stdin))
    ELSE s

\* Mutant of input_above: the head of the queue is read but not removed.
input_above_peeks(s) ==
    IF Len(s.stdin) > 0
    THEN _put_above(s, Head(s.stdin))
    ELSE [s EXCEPT !.needs_input = TRUE]

\* self.stdin.popleft() on a queue that is not empty: the value it returns
\* is the last of the result's taken.
popleft(s) == [s EXCEPT !.stdin = Tail(@), !.taken = Append(@, Head(s.stdin))]

\* The G branch of step.
input_above(s) ==
    IF Len(s.stdin) > 0
    THEN LET p == popleft(s) IN _put_above(p, p.taken[Len(p.taken)])
    ELSE [s EXCEPT !.needs_input = TRUE]

\* The g branch of step.
input_below(s) ==
    IF Len(s.stdin) > 0
    THEN LET p == popleft(s) IN _put_below(p, p.taken[Len(p.taken)])
    ELSE [s EXCEPT !.needs_input = TRUE]

\* Mutant of the last branch of step: an unknown symbol is passed over.
unknown_is_skipped(s, i) == s

\* The last branch of step: a symbol that is no instruction and not q.
unknown(s, i) ==
    IF i # sym["q"]
    THEN [s EXCEPT !.error = Err("invalid instruction: ", <<i>>)]
    ELSE s

\* The instruction table of step, for a code i that chr accepts.
dispatch(s, i) ==
    CASE i = sym["h"] -> SetDir(s, -1, 0)
      [] i = sym["l"] -> SetDir(s, 1, 0)
      [] i = sym["k"] -> SetDir(s, 0, -1)
      [] i = sym["j"] -> SetDir(s, 0, 1)
      [] i = sym["H"] -> _jump(SetDir(s, -1, 0))
      [] i = sym["L"] -> _jump(SetDir(s, 1, 0))
      [] i = sym["K"] -> _jump(SetDir(s, 0, -1))
      [] i = sym["J"] -> _jump(SetDir(s, 0, 1))
      [] i = sym["P"] -> _print(s, _get_above(s))
      [] i = sym["p"] -> _print(s, _get_below(s))
      [] i = sym["G"] -> input_above(s)
      [] i = sym["g"] -> input_below(s)
      [] i = sym["D"] -> _delete(s)
      [] i = sym["d"] -> _duplicate(s)
      [] i = sym["E"] -> _put_above(s, EOT)
      [] i = sym["e"] -> _put_below(s, EOT)
      [] i = sym["F"] ->
            IF s.stack # <<>> THEN _put_above(Pop(s), Top(s)) ELSE Underflow(s)
      [] i = sym["f"] ->
            IF s.stack # <<>> THEN _put_below(Pop(s), Top(s)) ELSE Underflow(s)
      [] i = sym["A"] -> _add(s, _get_above(s))
      [] i = sym["a"] -> _add(s, _get_below(s))
      [] i = sym["R"] -> _subtract(s, _get_above(s))
      [] i = sym["r"] -> _subtract(s, _get_below(s))
      [] i = sym["S"] -> [s EXCEPT !.stack = Append(@, _get_above(s))]
      [] i = sym["s"] -> [s EXCEPT !.stack = Append(@, _get_below(s))]
      [] i = sym["X"] ->
            IF s.stack # <<>>
            THEN IF Top(s) = None THEN Raise(s, "TypeError")
                 ELSE IF Top(s) < 0 THEN _rotate(s, FALSE) ELSE s
            ELSE Underflow(s)
      [] i = sym["x"] ->
            IF s.stack # <<>>
            THEN IF Top(s) = None THEN Raise(s, "TypeError")
                 ELSE IF Top(s) > 0 THEN _rotate(s, TRUE) ELSE s
            ELSE Underflow(s)
      [] i = sym["#"] /\ s.x = 0 /\ s.y = 0 /\ get(s, 1, 0) = sym["!"] ->
            SetDir(s, 0, 1)
      [] OTHER -> unknown(s, i)

\* The end of step: move the instruction pointer if execution is not blocked.
move_if_not_blocked(s) == IF ~blocked(s) THEN _move(s) ELSE s

step(s) ==
    IF ~is_valid(s, s.x, s.y) THEN Raise(s, "IndexError")
    ELSE IF blocked(s) THEN s
    ELSE LET i == instruction(s) IN
         IF i = None THEN Raise(s, "TypeError")
         ELSE LET s1 == IF ~is_printable(i)
                        THEN [s EXCEPT !.error = Err("invalid instruction: ",
                                                     to_printable(i))]
                        ELSE s
              IN  IF ~is_chr(i) THEN Raise(s1, "ValueError")
                  ELSE LET s2 == dispatch(s1, i)
                       IN  IF s2.raised # NoExc THEN s2
                           ELSE move_if_not_blocked(s2)

\* Mutant of reset: the input queue is kept.
reset_keeps_queue(s) ==
    [s EXCEPT !.x = 0, !.y = 0, !.dx = 0, !.dy = 0, !.stack = <<>>,
              !.stdout = <<>>, !.needs_input = FALSE, !.error = NoError]

reset(s) ==
    [s EXCEPT !.x = 0, !.y = 0, !.dx = 0, !.dy = 0, !.stack = <<>>,
              !.stdout = <<>>, !.stdin = <<>>, !.needs_input = FALSE,
              !.error = NoError]

\* Mutant of new_line: the new row is one cell short.
new_line_short(s) ==
    [s EXCEPT !.code = Append(@, [xx \in 1..COLUMNS - 1 |-> sym[" "]])]

new_line(s) ==
    [s EXCEPT !.code = Append(@, [xx \in 1..COLUMNS |-> sym[" "]])]

\* chr(i) for a code chr accepts: the string of that one character.
chr(i) == <<i>>

\* The least member of a set of numbers that is not empty.
First(S) == CHOOSE n \in S : \A m \in S : n <= m

\* The inner loop of code_to_string on one row: the characters chr gives for
\* its cells, one after the other, or the exception chr raises on the first
\* cell it rejects (TypeError on None, ValueError on a code out of range).
row_to_string(row) ==
    LET bad == {n \in 1..Len(row) : row[n] = None \/ ~is_chr(row[n])} IN
    IF bad = {}
    THEN [raised |-> NoExc, str |-> [n \in 1..Len(row) |-> chr(row[n])[1]]]
    ELSE [raised |-> IF row[First(bad)] = None THEN "TypeError" ELSE "ValueError",
          str |-> <<>>]

\* Mutant of code_to_string: the cells holding a space are left out.
code_to_string_without_spaces(s) ==
    [raised |-> NoExc,
     lines |-> [yy \in 1..Len(s.code) |->
                  SelectSeq(s.code[yy], LAMBDA c : c # sym[" "])]]

\* code_to_string: the list of the rows as strings, or the exception raised
\* in the first row that has one.
code_to_string(s) ==
    LET rows == [yy \in 1..Len(s.code) |-> row_to_string(s.code[yy])]
        bad == {yy \in 1..Len(rows) : rows[yy].raised # NoExc}
    IN  IF bad = {}
        THEN [raised |-> NoExc, lines |-> [yy \in 1..Len(rows) |-> rows[yy].str]]
        ELSE [raised |-> rows[First(bad)].raised, lines |-> <<>>]

\* The grid of __init__: each line cut or padded with spaces to COLUMNS.
init_code(lines) ==
    [yy \in 1..Len(lines) |->
        [xx \in 1..COLUMNS |->
            IF xx - 1 < Len(lines[yy]) THEN lines[yy][xx] ELSE sym[" "]]]

\* ArghInterpreter(lines).
__init__(lines) ==
    [code |-> init_code(lines), x |-> 0, y |-> 0, dx |-> 0, dy |-> 0,
     stack |-> <<>>, stdout |-> <<>>, stdin |-> <<>>, needs_input |-> FALSE,
     error |-> NoError, raised |-> NoExc, scan |-> NoScan, ret |-> TRUE,
     taken |-> <<>>]

\* ------------------------------------------- State of src/arghonaut.py
\* The class of the single-file program, as a record of the same shape as
\* Self.  Its fields for the renderer (render_start, ex, ey, pointer_moved,
\* cursor_moved) are read by no method below and are left out.

\* v == lit where v is an int or None and lit a str: Python gives False.
int_eq_str(v, lit) == FALSE

State_move(s) ==
    IF s.dx = 0 /\ s.dy = 0
    THEN [s EXCEPT !.error = Err("can't move; no direction specified", <<>>),
                   !.ret = FALSE]
    ELSE IF is_valid(s, s.x + s.dx, s.y + s.dy)
    THEN [s EXCEPT !.x = s.x + s.dx, !.y = s.y + s.dy, !.ret = TRUE]
    ELSE [s EXCEPT !.error = Err("moved out of bounds", <<>>), !.ret = FALSE]

\* One trip of the while loop of State.jump, while it is running.
State_jump_trip(s) ==
    IF ~s.scan.open THEN s
    ELSE IF instruction(s) = s.stack[Len(s.stack)]
    THEN [s EXCEPT !.scan.open = FALSE]
    ELSE LET m == State_move(s) IN
         IF ~m.ret
         THEN [m EXCEPT !.error = Err("jumped out of bounds", <<>>),
                        !.scan.n = @ + 1, !.scan.open = FALSE]
         ELSE [m EXCEPT !.scan.n = @ + 1]

\* k trips of that loop (evaluated by halving k, as jump_trips is).
RECURSIVE State_jump_trips(_, _)
State_jump_trips(s, k) ==
    IF k = 0 THEN s
    ELSE IF k = 1 THEN State_jump_trip(s)
    ELSE LET half == State_jump_trips(s, k \div 2)
         IN  IF half.scan.open THEN State_jump_trips(half, k - (k \div 2))
             ELSE half

State_jump(s) ==
    IF s.stack = <<>>
    THEN [s EXCEPT !.error = Err("tried to pop from an empty stack", <<>>)]
    ELSE LET m == State_move(s)
             n == [m EXCEPT !.scan.n = @ + 1]
             r == IF ~m.ret
                  THEN [n EXCEPT !.error = Err("jumped out of bounds", <<>>)]
                  ELSE State_jump_trips([n EXCEPT !.scan.open = TRUE],
                                        ScanFuel(n))
         IN  [r EXCEPT !.scan.ran = TRUE, !.scan.x = r.x, !.scan.y = r.y]

State_input_char(s, char) ==
    [s EXCEPT !.stdin = Append(@, char), !.needs_input = FALSE]

RECURSIVE State_input_string(_, _)
State_input_string(s, string) ==
    IF string = <<>> THEN s
    ELSE State_input_string(State_input_char(s, Head(string)), Tail(string))

State_rotate(s, clockwise) ==
    LET t == [s EXCEPT !.dx = s.dy, !.dy = s.dx]
    IN  IF clockwise THEN [t EXCEPT !.dx = -t.dx] ELSE [t EXCEPT !.dy = -t.dy]

\* The P and p branches of State.step, without the batch echo.  The text
\* after the colon is a plain string, not an f-string: it names no cell.
State_print(s, char) ==
    IF char = None THEN Raise(s, "TypeError")
    ELSE IF is_chr(char) THEN [s EXCEPT !.stdout = @ \o <<char>>]
    ELSE [s EXCEPT !.error = Err("tried to print unprintable character: ",
                                 Str("{to_printable(char)}"))]

\* The G and g branches of State.step: self.stdin is a queue.Queue.
State_input(s, above) ==
    IF Len(s.stdin) > 0
    THEN LET p == popleft(s)
             c == p.taken[Len(p.taken)]
         IN  put(p, c, p.x, IF above THEN p.y - 1 ELSE p.y + 1)
    ELSE [s EXCEPT !.needs_input = TRUE]

\* The # branch of State.step: it is taken on every #, wherever it lies,
\* and compares the cell to the right, an int or None, with the str '!'.
State_directive(s) ==
    IF int_eq_str(get(s, s.x + 1, s.y), "!") THEN SetDir(s, 0, 1) ELSE s

\* The instruction table of State.step, for a code i that chr accepts.
State_dispatch(s, i) ==
    CASE i = sym["h"] -> SetDir(s, -1, 0)
      [] i = sym["l"] -> SetDir(s, 1, 0)
      [] i = sym["k"] -> SetDir(s, 0, -1)
      [] i = sym["j"] -> SetDir(s, 0, 1)
      [] i = sym["H"] -> State_jump(SetDir(s, -1, 0))
      [] i = sym["L"] -> State_jump(SetDir(s, 1, 0))
      [] i = sym["K"] -> State_jump(SetDir(s, 0, -1))
      [] i = sym["J"] -> State_jump(SetDir(s, 0, 1))
      [] i = sym["P"] -> State_print(s, get(s, s.x, s.y - 1))
      [] i = sym["p"] -> State_print(s, get(s, s.x, s.y + 1))
      [] i = sym["G"] -> State_input(s, TRUE)
      [] i = sym["g"] -> State_input(s, FALSE)
      [] i = sym["D"] -> IF s.stack # <<>> THEN Pop(s) ELSE Underflow(s)
      [] i = sym["d"] ->
            IF s.stack # <<>> THEN [s EXCEPT !.stack = Append(@, Top(s))]
            ELSE Underflow(s)
      [] i = sym["E"] -> put(s, EOT, s.x, s.y - 1)
      [] i = sym["e"] -> put(s, EOT, s.x, s.y + 1)
      [] i = sym["F"] ->
            IF s.stack # <<>> THEN put(Pop(s), Top(s), s.x, s.y - 1)
            ELSE Underflow(s)
      [] i = sym["f"] ->
            IF s.stack # <<>> THEN put(Pop(s), Top(s), s.x, s.y + 1)
            ELSE Underflow(s)
      [] i \in {sym["A"], sym["a"], sym["R"], sym["r"]} ->
            IF s.stack # <<>>
            THEN LET c == get(s, s.x, IF i \in {sym["A"], sym["R"]}
                                      THEN s.y - 1 ELSE s.y + 1)
                 IN  IF Top(s) = None \/ c = None THEN Raise(s, "TypeError")
                     ELSE IF i \in {sym["A"], sym["a"]}
                     THEN [s EXCEPT !.stack[Len(s.stack)] = @ + c]
                     ELSE [s EXCEPT !.stack[Len(s.stack)] = @ - c]
            ELSE Underflow(s)
      [] i = sym["S"] -> [s EXCEPT !.stack = Append(@, get(s, s.x, s.y - 1))]
      [] i = sym["s"] -> [s EXCEPT !.stack = Append(@, get(s, s.x, s.y + 1))]
      [] i = sym["X"] ->
            IF s.stack # <<>>
            THEN IF Top(s) = None THEN Raise(s, "TypeError")
                 ELSE IF Top(s) < 0 THEN State_rotate(s, FALSE) ELSE s
            ELSE Underflow(s)
      [] i = sym["x"] ->
            IF s.stack # <<>>
            THEN IF Top(s) = None THEN Raise(s, "TypeError")
                 ELSE IF Top(s) > 0 THEN State_rotate(s, TRUE) ELSE s
            ELSE Underflow(s)
      [] i = sym["#"] -> State_directive(s)
      [] OTHER ->
            IF i # sym["q"]
            THEN [s EXCEPT !.error = Err("invalid instruction: ", <<i>>)]
            ELSE s

\* State.step.  State.done, State.blocked and State.instruction read the
\* same fields as those of the interpreter.
State_step(s) ==
    IF ~is_valid(s, s.x, s.y) THEN Raise(s, "IndexError")
    ELSE IF done(s) \/ s.error # NoError \/ s.needs_input THEN s
    ELSE LET i == instruction(s) IN
         IF i = None THEN Raise(s, "TypeError")
         ELSE LET s1 == IF ~is_printable(i)
                        THEN [s EXCEPT !.error = Err("invalid instruction: ",
                                                     to_printable(i))]
                        ELSE s
              IN  IF ~is_chr(i) THEN Raise(s1, "ValueError")
                  ELSE LET s2 == State_dispatch(s1, i)
                       IN  IF s2.raised # NoExc THEN s2
                           ELSE IF ~(\/ done(s2) \/ s2.error # NoError
                                     \/ s2.needs_input)
                           THEN State_move(s2)
                           ELSE s2

State_reset(s) ==
    [s EXCEPT !.x = 0, !.y = 0, !.dx = 0, !.dy = 0, !.stack = <<>>,
              !.stdout = <<>>, !.stdin = <<>>, !.needs_input = FALSE,
              !.error = NoError]

\* State(code): the grid as __init__ builds it, then reset().
State(lines) ==
    State_reset(
        [code |-> [yy \in 1..Len(lines) |->
                     [xx \in 1..COLUMNS |->
                        IF xx - 1 < Len(lines[yy]) THEN lines[yy][xx]
                        ELSE sym[" "]]],
         x |-> 0, y |-> 0, dx |-> 0, dy |-> 0, stack |-> <<>>,
         stdout |-> <<>>, stdin |-> <<>>, needs_input |-> FALSE,
         error |-> NoError, raised |-> NoExc, scan |-> NoScan, ret |-> TRUE,
         taken |-> <<>>])

\* ----------------------------------------------------------------- programs

\* One instruction at the origin: no direction, an empty stack, one row.
AtOrigin == {<<Str(c)>> : c \in Alphabet}

\* One instruction after l: an empty stack, nothing above or below.
AfterRight == {<<Str("l" \o c)>> : c \in Alphabet}

\* One instruction after lS: None on the stack, nothing above or below.
AfterPushNone == {<<Str("lS" \o c)>> : c \in Alphabet}

\* One instruction going down with ord("j") on the stack, S above, q below.
GoingDown == {<<Str("j"), Str("S"), Str(c), Str("q")>> : c \in Alphabet}

Written ==
    {<<>>,
     \* a loop that pushes and prints on every turn
     <<Str("lsj"), Str("kph"), Str(" A ")>>,
     \* reads one input into (1,1) and prints it from below
     <<Str("lgj"), Str("  j"), Str("qPh")>>,
     \* reads one input into (1,1) and runs into it
     <<Str("lgj"), Str("qzh")>>,
     \* a negative stack top, turned by X, popped into the last row
     <<Str("j"), Str("S"), Str("r"), Str("x"), Str("Xfq"), Str("   ")>>,
     \* jumps that land: on j, two cells away, and on q
     <<Str("j"), Str("S"), Str("L jq")>>,
     <<Str("lsL  q"), Str(" q")>>,
     \* None popped into (2,1), then run into
     <<Str("lSfj"), Str("  zh")>>,
     \* two inputs read in a row, above and below
     <<Str("j "), Str("lGgq"), Str("    ")>>,
     \* a negative stack top (33 - 122) popped into (3,1), then run into
     <<Str("lsrfj"), Str(" !z h")>>,
     \* three inputs read in a row
     <<Str("j    "), Str("lGgGq"), Str("     ")>>,
     \* EOT written into (1,1), then run into
     <<Str("lej"), Str("qzh")>>,
     \* L jumps with its own symbol on the stack and lands before a space
     <<Str("lsL L q"), Str(" L")>>,
     \* None pushed from above the first row, then a with ! below it
     <<Str("lSa"), Str("  !")>>,
     \* reads one input into (1,1), pushes it and adds a space to it
     <<Str("lgj"), Str("  j"), Str("ASh")>>,
     \* prints two different characters
     <<Str("lppq"), Str(" A@")>>}

\* X and x met in each of the four directions.
Turns ==
    {\* a positive top: four x turn the pointer round a loop
     <<Str("lsj "), Str(" xlx"), Str(" xhx")>>,
     \* a negative top (33 - 88): four X turn it round the other way
     <<Str("lsrj "), Str(" !XhX"), Str("  XlX")>>,
     \* a positive top: four X passed straight through
     <<Str("lsXj"), Str(" X X"), Str(" kXh")>>,
     \* a zero top (120 - 120): four x passed straight through
     <<Str("lsrxj"), Str(" xx x"), Str("  kxh")>>,
     \* a zero top (88 - 88): four X passed straight through
     <<Str("lsrXj"), Str(" XX X"), Str("  kXh")>>,
     \* going right with a top of -1 (64 - 65) on X, of 1 (65 - 64) on x
     <<Str("lsrX"), Str(" @A ")>>,
     <<Str("lsrx"), Str(" A@ ")>>}

\* A source line of COLUMNS + 1 characters: l, then j to the end.
LongLine == [i \in 1..COLUMNS + 1 |-> IF i = 1 THEN sym["l"] ELSE sym["j"]]

\* The programs an editing session starts from: no line, a line too long,
\* lines of different lengths, and programs that write into the grid.
EditorPrograms ==
    {<<>>,
     <<LongLine>>,
     <<Str("G")>>,
     <<Str("lgj"), Str("qzh")>>,
     <<Str("lSfj"), Str("  zh")>>}

Programs ==
    {<<LongLine>>} \cup AtOrigin \cup AfterRight \cup AfterPushNone \cup GoingDown \cup Written
        \cup Turns

\* What the caller may pass to input_char and input_string.
InputChars == {65, MaxUnicode + 1}

InputStrings == {<<>>, Str("A"), Str("zA")}

\* ------------------------------------------------------------------ actions

\* The state as the methods see it.
Instr == IF is_valid(Self, x, y) THEN instruction(Self) ELSE None

IsDone == done(Self)

\* What a call finds as it begins: whether the machine is done, in error or
\* waiting for input, the code under the pointer, needs_input, the call
\* before, and whether that call was an input_char answering needs_input.
Found ==
    [blocked |-> IsDone \/ error # NoError \/ needs_input,
     instr |-> Instr,
     needs_input |-> needs_input,
     last |-> last,
     awaited |-> last = "input_char" /\ began.needs_input]

\* The object after a call, and the call's name.
Becomes(r, call) ==
    /\ code' = r.code
    /\ x' = r.x
    /\ y' = r.y
    /\ dx' = r.dx
    /\ dy' = r.dy
    /\ stack' = r.stack
    /\ stdout' = r.stdout
    /\ stdin' = r.stdin
    /\ needs_input' = r.needs_input
    /\ error' = r.error
    /\ raised' = r.raised
    /\ scan' = r.scan
    /\ last' = call
    /\ began' = Found

\* The model follows a run while its values stay within the bounds.
Bounded(r) ==
    /\ Len(r.stack) <= MaxStack
    /\ Len(r.stdout) <= MaxOut
    /\ Len(r.stdin) <= MaxQueue
    /\ \A i \in 1..Len(r.stack) :
          r.stack[i] = None \/ (-MaxAbs <= r.stack[i] /\ r.stack[i] <= MaxAbs)

\* The batch loop before the program has entered it.
NotBatch == [pc |-> "main", eof |-> FALSE, complained |-> FALSE]

\* The State object and the batch loop, which the calls of the interpreter
\* leave alone.
Apart == <<mono, batch>>

\* The state after ArghInterpreter(lines) and State(lines).
Constructed(lines) ==
    LET r == __init__(lines) IN
    /\ code = r.code
    /\ x = r.x
    /\ y = r.y
    /\ dx = r.dx
    /\ dy = r.dy
    /\ stack = r.stack
    /\ stdout = r.stdout
    /\ stdin = r.stdin
    /\ needs_input = r.needs_input
    /\ error = r.error
    /\ raised = r.raised
    /\ scan = r.scan
    /\ last = "__init__"
    /\ began = [blocked |-> FALSE, instr |-> None, needs_input |-> FALSE,
                last |-> "__init__", awaited |-> FALSE]
    /\ supplied = <<>>
    /\ consumed = <<>>
    /\ program = lines
    /\ mono = State(lines)
    /\ batch = NotBatch

Init == \E lines \in Programs : Constructed(lines)

Step ==
    LET r == step(Self) IN
    /\ Bounded(r)
    /\ Becomes(r, "step")
    /\ supplied' = supplied
    /\ consumed' = consumed \o r.taken
    /\ UNCHANGED <<program, Apart>>

Reset ==
    /\ Becomes(reset(Self), "reset")
    /\ supplied' = <<>>
    /\ consumed' = <<>>
    /\ UNCHANGED <<program, Apart>>

InputChar ==
    \E char \in InputChars :
        LET r == input_char(Self, char) IN
        /\ Bounded(r)
        /\ Becomes(r, "input_char")
        /\ supplied' = Append(supplied, char)
        /\ consumed' = consumed
        /\ UNCHANGED <<program, Apart>>

InputString ==
    \E string \in InputStrings :
        LET r == input_string(Self, string) IN
        /\ Bounded(r)
        /\ Becomes(r, "input_string")
        /\ supplied' = supplied \o string
        /\ consumed' = consumed
        /\ UNCHANGED <<program, Apart>>

\* The editor appends a line, while the grid stays within the bound.
NewLine ==
    /\ Len(code) < MaxRows
    /\ Becomes(new_line(Self), "new_line")
    /\ supplied' = supplied
    /\ consumed' = consumed
    /\ UNCHANGED <<program, Apart>>

\* The editor saves the grid with code_to_string and builds a new
\* interpreter from what it saved; an exception from code_to_string leaves
\* the old one in place.
Reload ==
    LET saved == code_to_string(Self) IN
    IF saved.raised # NoExc
    THEN /\ Becomes(Raise(Self, saved.raised), "reload")
         /\ supplied' = supplied
         /\ consumed' = consumed
         /\ UNCHANGED <<program, Apart>>
    ELSE /\ Becomes(__init__(saved.lines), "reload")
         /\ supplied' = <<>>
         /\ consumed' = <<>>
         /\ UNCHANGED <<program, Apart>>

Next == Step \/ Reset \/ InputChar \/ InputString

Spec == Init /\ [][Next]_vars

\* An editing session: the program runs as above while the editor appends
\* lines and saves and reloads the grid.
InitEditor == \E lines \in EditorPrograms : Constructed(lines)

NextEditor == Step \/ Reset \/ InputChar \/ NewLine \/ Reload

SpecEditor == InitEditor /\ [][NextEditor]_vars

\* ------------------------------------------------------- the two engines

\* The State object as a call finds it.
Mono ==
    [mono EXCEPT !.raised = NoExc, !.scan = NoScan, !.ret = TRUE,
                 !.taken = <<>>]

\* Programs given to both engines: the directive marker at the origin with
\* and without ! and a row below, # away from the origin, and programs
\* without # that read, print, jump, turn and compute.
TwinPrograms ==
    {<<Str("#!"), Str("q")>>,
     <<Str("#!")>>,
     <<Str("# "), Str("q")>>,
     <<Str("l#!"), Str("q")>>,
     <<Str("j"), Str("#!"), Str("q")>>,
     <<Str("lgj"), Str("qzh")>>,
     <<Str("lgj"), Str("  j"), Str("qPh")>>,
     <<Str("lsj"), Str("kph"), Str(" A ")>>,
     <<Str("j"), Str("S"), Str("L jq")>>,
     <<Str("lsrX"), Str(" @A ")>>,
     <<Str("lSfj"), Str("  zh")>>,
     <<Str("lH")>>,
     <<Str("P")>>,
     <<>>}

\* What the caller may pass to input_char of both: '#', 'A', and a code
\* chr rejects.
TwinInputChars == {sym["#"], sym["A"], MaxUnicode + 1}

InitTwin == \E lines \in TwinPrograms : Constructed(lines)

\* The same call made on the interpreter and on the State object.
TwinStep ==
    LET r == step(Self)
        m == State_step(Mono)
    IN  /\ Bounded(r)
        /\ Bounded(m)
        /\ Becomes(r, "step")
        /\ supplied' = supplied
        /\ consumed' = consumed \o r.taken
        /\ mono' = m
        /\ UNCHANGED <<program, batch>>

TwinReset ==
    /\ Becomes(reset(Self), "reset")
    /\ supplied' = <<>>
    /\ consumed' = <<>>
    /\ mono' = State_reset(Mono)
    /\ UNCHANGED <<program, batch>>

TwinInputChar ==
    \E char \in TwinInputChars :
        LET r == input_char(Self, char)
            m == State_input_char(Mono, char)
        IN  /\ Bounded(r)
            /\ Bounded(m)
            /\ Becomes(r, "input_char")
            /\ supplied' = Append(supplied, char)
            /\ consumed' = consumed
            /\ mono' = m
            /\ UNCHANGED <<program, batch>>

NextTwin == TwinStep \/ TwinReset \/ TwinInputChar

SpecTwin == InitTwin /\ [][NextTwin]_vars

\* ------------------------------------------------------- the batch loop
\* The batch mode of src/arghonaut.py: it runs a State object, one action
\* per statement, batch.pc naming the statement to run next ("raised": an
\* exception has ended the process, "exit": the loop and the statement
\* after it are done).

\* The variables of the interpreter, which the batch mode does not use.
Engine ==
    <<code, x, y, dx, dy, stack, stdout, stdin, needs_input, error, raised,
      scan, last, began, supplied, consumed>>

\* Programs run in batch mode: each is done, in error, or waiting for
\* input after a bounded number of steps, whatever it is given.
BatchPrograms ==
    {<<>>,
     <<Str("q")>>,
     <<Str("z")>>,
     <<Str("lgj"), Str("qzh")>>,
     <<Str("lgj"), Str("  j"), Str("qPh")>>,
     <<Str("j "), Str("lGgq"), Str("    ")>>,
     <<Str("j    "), Str("lGgGq"), Str("     ")>>,
     \* reads for ever, to and fro
     <<Str("lgh"), Str("   ")>>}

\* The lines input() may return.
BatchLines == {<<>>, Str("A")}

InitBatch == \E lines \in BatchPrograms : Constructed(lines)

\* state = State(read_lines(args.src.name)); eof = False
BatchStart ==
    /\ batch.pc = "main"
    /\ mono' = State(program)
    /\ batch' = [batch EXCEPT !.pc = "while", !.eof = FALSE]
    /\ UNCHANGED <<Engine, program>>

\* while not state.done and not state.error (done raises IndexError on a
\* program of no lines)
BatchWhile ==
    /\ batch.pc = "while"
    /\ IF ~is_valid(mono, mono.x, mono.y)
       THEN /\ mono' = Raise(Mono, "IndexError")
            /\ batch' = [batch EXCEPT !.pc = "raised"]
       ELSE /\ mono' = mono
            /\ batch' = [batch EXCEPT !.pc =
                            IF ~done(mono) /\ mono.error = NoError
                            THEN "step" ELSE "after"]
    /\ UNCHANGED <<Engine, program>>

\* state.step(batch=True)
BatchStep ==
    /\ batch.pc = "step"
    /\ LET m == State_step(Mono) IN
       /\ Bounded(m)
       /\ mono' = m
       /\ batch' = [batch EXCEPT !.pc = IF m.raised # NoExc THEN "raised"
                                        ELSE "if"]
    /\ UNCHANGED <<Engine, program>>

\* if state.needs_input: false
BatchNoInput ==
    /\ batch.pc = "if"
    /\ ~mono.needs_input
    /\ batch' = [batch EXCEPT !.pc = "while"]
    /\ UNCHANGED <<Engine, program, mono>>

\* if eof: print('Argh!', 'tried to read input after EOF')
BatchComplain ==
    /\ batch.pc = "if"
    /\ mono.needs_input
    /\ batch.eof
    /\ batch' = [batch EXCEPT !.pc = "while", !.complained = TRUE]
    /\ UNCHANGED <<Engine, program, mono>>

\* state.input_string(input() + '\n')
BatchInput ==
    /\ batch.pc = "if"
    /\ mono.needs_input
    /\ ~batch.eof
    /\ \E line \in BatchLines :
          LET m == State_input_string(Mono, line \o <<10>>) IN
          /\ Bounded(m)
          /\ mono' = m
    /\ batch' = [batch EXCEPT !.pc = "while"]
    /\ UNCHANGED <<Engine, program>>

\* except EOFError: state.input_char(curses.ascii.EOT); eof = True
BatchEOF ==
    /\ batch.pc = "if"
    /\ mono.needs_input
    /\ ~batch.eof
    /\ mono' = State_input_char(Mono, EOT)
    /\ batch' = [batch EXCEPT !.pc = "while", !.eof = TRUE]
    /\ UNCHANGED <<Engine, program>>

\* if state.error: print('Argh!', state.error), and the end of the script
BatchAfter ==
    /\ batch.pc = "after"
    /\ batch' = [batch EXCEPT !.pc = "exit"]
    /\ UNCHANGED <<Engine, program, mono>>

NextBatch ==
    \/ BatchStart
    \/ BatchWhile
    \/ BatchStep
    \/ BatchNoInput
    \/ BatchComplain
    \/ BatchInput
    \/ BatchEOF
    \/ BatchAfter

\* The process runs on while it has a statement to run.
SpecBatch == InitBatch /\ [][NextBatch]_vars /\ WF_vars(NextBatch)

\* ------------------------------------------------------------------- claims

\* What a caller can observe of the run, apart from error and needs_input.
Run == <<x, y, dx, dy, stack, code, stdin, stdout>>

\* done true, error set, or needs_input true, as the caller reads them.
IsBlocked == IsDone \/ error # NoError \/ needs_input

StackUnderflow == "tried to pop from an empty stack"

JumpedOut == "jumped out of bounds"

Unprintable == "tried to print unprintable character: "

MoveFailed == {"can't move; no direction specified", "moved out of bounds"}

Jumps == {sym["H"], sym["L"], sym["K"], sym["J"]}

Inputs == {sym["G"], sym["g"]}

\* C1: a call of step on a blocked machine (done, error set or needs_input)
\* changes neither the pointer, the direction, the stack, the grid, the
\* input queue, the output, error nor needs_input.
C1_BlockedStepChangesNothing ==
    [][(last' = "step" /\ IsBlocked)
        => UNCHANGED <<Run, error, needs_input>>]_vars

\* step was called while the machine was waiting for input with an empty
\* queue.
C1_Witness ==
    last = "step" /\ began.blocked /\ began.needs_input /\ stdin = <<>>

\* C2 as stated: every step that ends with a diagnostic set leaves the
\* pointer, the direction, the stack, the grid, the input queue and the
\* output as they were before it.
C2_EveryFailingStepIsAtomic ==
    [][(last' = "step" /\ error' # NoError) => UNCHANGED Run]_vars

\* C2 as amended: a step whose diagnostic is set by the dispatch of an
\* instruction other than H, L, K, J (invalid instruction, stack underflow,
\* unprintable output) leaves the pointer, the direction, the stack, the
\* grid, the input queue and the output as they were.  A failing H, L, K or
\* J leaves the stack, the grid, the queue and the output as they were: on
\* an empty stack the pointer too, off the grid the pointer on the last
\* cell in its direction.  A failing final move leaves the pointer where
\* the instruction was.
C2_DispatchFailureIsAtomic ==
    [][(last' = "step" /\ error' # NoError)
        => IF Instr \in Jumps
           THEN /\ UNCHANGED <<stack, code, stdin, stdout>>
                /\ error'.msg = StackUnderflow => x' = x /\ y' = y
                /\ (~IsBlocked /\ error'.msg = JumpedOut)
                     => ~is_valid(Self, x' + dx', y' + dy')
           ELSE IF error'.msg \in MoveFailed
           THEN x' = x /\ y' = y
           ELSE UNCHANGED Run]_vars

\* A print has failed on a cell chr does not accept.
C2_Witness ==
    /\ last = "step"
    /\ began.instr \in {sym["P"], sym["p"]}
    /\ error.msg = Unprintable

\* C3 as stated: a machine that is not blocked has its pointer on a cell of
\* the grid.
C3_PointerOnGridUnlessBlocked ==
    ~IsBlocked => (0 <= y /\ y < Len(code) /\ 0 <= x /\ x < COLUMNS)

\* C4: once a diagnostic is set, step, input_char and input_string leave it
\* as it is and the machine blocked, and only reset clears it.
C4_ErrorIsSticky ==
    [][error # NoError
        => \/ error' = error /\ IsBlocked'
           \/ last' = "reset" /\ error' = NoError]_vars

\* step was called after input_char on a machine in error.
C4_Witness ==
    /\ last = "step"
    /\ began.last = "input_char"
    /\ began.blocked
    /\ error # NoError
    /\ stdin # <<>>

\* C5: G or g on an empty queue sets needs_input and changes nothing else;
\* step is then a no-op; input_char clears needs_input and leaves the machine
\* on the same instruction, able to run; G or g on a queue that is not empty
\* moves exactly its head into the cell above or below and does not set
\* needs_input.
C5_BlockingInput ==
    [][/\ (last' = "step" /\ ~IsBlocked /\ Instr \in Inputs /\ stdin = <<>>)
            => needs_input' /\ UNCHANGED <<Run, error>>
       /\ (last' = "step" /\ needs_input)
            => UNCHANGED <<Run, error, needs_input>>
       /\ (last' = "input_char" /\ needs_input)
            => /\ ~needs_input' /\ stdin' # <<>> /\ error' = NoError
               /\ UNCHANGED <<x, y, dx, dy, stack, code, stdout>>
       /\ (last' = "step" /\ ~IsBlocked /\ Instr \in Inputs /\ stdin # <<>>)
            => /\ stdin' = Tail(stdin)
               /\ ~needs_input'
               /\ code' = put(Self, Head(stdin), x,
                              IF Instr = sym["G"] THEN y - 1 ELSE y + 1).code
               /\ UNCHANGED <<stack, stdout>>]_vars

\* The step after the input_char that answered needs_input has read the
\* input into the grid.
C5_Witness ==
    /\ last = "step"
    /\ began.awaited
    /\ began.instr \in Inputs
    /\ ~needs_input
    /\ stdin = <<>>
    /\ \E yy \in 1..Len(code) : \E xx \in 1..COLUMNS : code[yy][xx] = 65

\* C6: needs_input holds only with an empty queue and G or g under the
\* pointer, and never right after input_char.
C6_NeedsInput ==
    /\ needs_input => (stdin = <<>> /\ Instr \in Inputs)
    /\ last = "input_char" => ~needs_input

\* input_char was called while the machine was waiting for input.
C6_Witness == last = "input_char" /\ began.needs_input /\ ~needs_input

PopsOrReads ==
    {sym[c] : c \in {"D", "d", "F", "f", "A", "a", "R", "r", "X", "x",
                     "H", "L", "K", "J"}}

\* C7: each of D d F f A a R r X x H L K J on an empty stack sets the
\* stack-underflow diagnostic and leaves the stack empty.
C7_UnderflowIsReported ==
    [][(last' = "step" /\ ~IsBlocked /\ Instr \in PopsOrReads /\ stack = <<>>)
        => error'.msg = StackUnderflow /\ stack' = <<>>]_vars

\* A on an empty stack in the first row, where no cell lies above.
C7_Witness ==
    /\ last = "step"
    /\ began.instr = sym["A"]
    /\ y = 0
    /\ stack = <<>>
    /\ error.msg = StackUnderflow

\* The longer side of the grid.
LongerSide == IF Len(code) > COLUMNS THEN Len(code) ELSE COLUMNS

\* C8: the scan of _jump ends, after at most as many calls of _move as the
\* grid is wide or high, either on a cell equal to the stack top or with
\* the jumped-out-of-bounds diagnostic.
C8_JumpScanEnds ==
    scan.ran =>
        /\ ~scan.open
        /\ scan.n <= LongerSide
        /\ \/ error.msg = JumpedOut
           \/ code[scan.y + 1][scan.x + 1] = stack[Len(stack)]

\* A scan to the right has run into the last column.
C8_Witness ==
    scan.ran /\ error.msg = JumpedOut /\ x = COLUMNS - 1 /\ scan.n > 70

\* C9 as stated: step on P (p) either appends the character of the cell
\* above (below) to the output or sets the unprintable-output diagnostic
\* and leaves the output as it was.
C9_PrintAppendsOrFails ==
    [][(last' = "step" /\ ~IsBlocked /\ Instr \in {sym["P"], sym["p"]})
        => LET char == IF Instr = sym["P"] THEN _get_above(Self)
                       ELSE _get_below(Self)
           IN  \/ stdout' = stdout \o <<char>> /\ char # None
               \/ error'.msg = Unprintable /\ stdout' = stdout]_vars

\* C10 as stated: every element of the stack is an integer.
C10_StackHoldsIntegers == \A i \in 1..Len(stack) : stack[i] # None

InvalidInstruction == "invalid instruction: "

\* C11 as stated: step on a cell whose code lies outside 32..126 sets the
\* invalid-instruction diagnostic and returns, with the pointer, the
\* direction, the stack, the grid, the input queue and the output as they
\* were.
C11_NonPrintableIsInvalid ==
    [][(last' = "step" /\ ~IsBlocked /\ Instr # None
            /\ (Instr < 32 \/ Instr > 126))
        => /\ error'.msg = InvalidInstruction
           /\ raised' = NoExc
           /\ UNCHANGED Run]_vars

\* The codes of the instruction alphabet.
Instructions ==
    {sym[c] : c \in {"h", "l", "k", "j", "H", "L", "K", "J", "P", "p", "G",
                     "g", "D", "d", "E", "e", "F", "f", "A", "a", "R", "r",
                     "S", "s", "X", "x", "#", "q"}}

\* C12: step on a printable symbol outside the instruction alphabet sets
\* the invalid-instruction diagnostic naming that symbol and leaves the
\* pointer, the direction, the stack, the grid, the input queue and the
\* output as they were; the machine is blocked from then on, with that
\* diagnostic, until reset.
C12_InstructionSetIsClosed ==
    [][/\ (last' = "step" /\ ~IsBlocked /\ 32 <= Instr /\ Instr <= 126
              /\ Instr \notin Instructions)
            => /\ error' = Err(InvalidInstruction, <<Instr>>)
               /\ IsBlocked'
               /\ UNCHANGED Run
       /\ (error.msg = InvalidInstruction /\ last' # "reset")
            => error' = error /\ IsBlocked' /\ UNCHANGED <<x, y, dx, dy>>]_vars

\* z was stepped on away from the origin with a direction set, and step
\* was called again after it.
C12_Witness ==
    /\ last = "step"
    /\ began.last = "step"
    /\ Instr = sym["z"]
    /\ error = Err(InvalidInstruction, <<sym["z"]>>)
    /\ x > 0
    /\ dx # 0

NoDirection == "can't move; no direction specified"

MovedOut == "moved out of bounds"

\* In an action, the pointer after the dispatch of the step being taken:
\* where _jump returned if it scanned, else where the step began.
AfterDispatchX == IF scan'.ran THEN scan'.x ELSE x

AfterDispatchY == IF scan'.ran THEN scan'.y ELSE y

\* In an action, the step being taken was not blocked after its dispatch:
\* it began unblocked, no exception left it, the dispatch set neither
\* needs_input nor a diagnostic (the two of MoveFailed are set only by the
\* final move; _jump replaces them by its own), and the pointer was not
\* on q after it.
UnblockedAfterDispatch ==
    /\ last' = "step"
    /\ ~IsBlocked
    /\ raised' = NoExc
    /\ ~needs_input'
    /\ error' = NoError \/ error'.msg \in MoveFailed
    /\ code'[AfterDispatchY + 1][AfterDispatchX + 1] # sym["q"]

\* C13: the move at the end of a step whose dispatch leaves the machine
\* unblocked sets the no-direction diagnostic and keeps the pointer if the
\* direction is (0,0); else sets the out-of-bounds diagnostic and keeps the
\* pointer if pointer + direction is off the grid; else puts the pointer
\* exactly one cell further, on pointer + direction, and sets no diagnostic.
C13_PostDispatchMove ==
    [][UnblockedAfterDispatch
        => LET px == AfterDispatchX
               py == AfterDispatchY
           IN  IF dx' = 0 /\ dy' = 0
               THEN error'.msg = NoDirection /\ x' = px /\ y' = py
               ELSE IF ~(/\ 0 <= py + dy' /\ py + dy' < Len(code')
                         /\ 0 <= px + dx' /\ px + dx' < COLUMNS)
               THEN error'.msg = MovedOut /\ x' = px /\ y' = py
               ELSE /\ x' = px + dx' /\ y' = py + dy'
                    /\ error' = NoError]_vars

\* A jump to the right has landed and the step has moved one cell on.
C13_Witness ==
    /\ last = "step"
    /\ scan.ran
    /\ error = NoError
    /\ dx = 1
    /\ x = scan.x + 1
    /\ y = scan.y

\* A machine as its constructor leaves it, whatever its lines.
Fresh == __init__(<<>>)

\* C14: reset puts the pointer and the direction at (0,0), empties the
\* stack, the input queue and the output, unsets error, makes needs_input
\* false and leaves the grid as the program has written it; every field
\* but the grid then has the value the constructor gives it.
C14_ResetReinitialises ==
    [][last' = "reset"
        => /\ x' = 0 /\ y' = 0 /\ dx' = 0 /\ dy' = 0
           /\ stack' = <<>> /\ stdin' = <<>> /\ stdout' = <<>>
           /\ error' = NoError /\ ~needs_input'
           /\ code' = code
           /\ <<x', y', dx', dy', stack', stdin', stdout', error',
                 needs_input'>>
                = <<Fresh.x, Fresh.y, Fresh.dx, Fresh.dy, Fresh.stack,
                    Fresh.stdin, Fresh.stdout, Fresh.error,
                    Fresh.needs_input>>]_vars

\* reset was called on a blocked machine right after input_char had
\* queued a code, with a cell the program wrote from its input still there.
C14_Witness ==
    /\ last = "reset"
    /\ began.last = "input_char"
    /\ began.blocked
    /\ stdin = <<>>
    /\ \E yy \in 1..Len(code) : \E xx \in 1..COLUMNS : code[yy][xx] = 65

Turners == {sym["X"], sym["x"]}

TurnsGoingRight(instr, top) ==
    /\ last' = "step"
    /\ ~IsBlocked
    /\ Instr = instr
    /\ <<dx, dy>> = <<1, 0>>
    /\ stack # <<>>
    /\ stack[Len(stack)] = top

OnlyG ==
    /\ Len(code) = 1
    /\ code[1][1] = sym["G"]
    /\ \A xx \in 2..COLUMNS : code[1][xx] = sym[" "]

\* In an action, the three calls of the scenario on that program: the first
\* step of a run with nothing queued, input_char('A') while the machine
\* waits, and the step after it.
FirstStepOfG ==
    last \in {"__init__", "reset"} /\ last' = "step" /\ OnlyG

InputAToG ==
    needs_input /\ last' = "input_char" /\ stdin' = <<sym["A"]>> /\ OnlyG

StepAfterInputA ==
    /\ last = "input_char"
    /\ last' = "step"
    /\ began.needs_input
    /\ stdin = <<sym["A"]>>
    /\ OnlyG

\* C17 as stated: on the program "G" with nothing queued, the first step
\* sets needs_input and leaves the pointer at (0,0); input_char('A') clears
\* needs_input; the next step takes 'A' from the queue, writes nothing (no
\* cell lies above) and advances the pointer.
C17_GThenAdvances ==
    [][/\ FirstStepOfG => needs_input' /\ <<x', y'>> = <<0, 0>>
       /\ InputAToG => ~needs_input'
       /\ StepAfterInputA
            => /\ stdin' = <<>>
               /\ code' = code
               /\ <<x', y'>> # <<0, 0>>]_vars

\* C17 as amended: ... the next step takes 'A' from the queue, writes
\* nothing, and since no direction was ever set it sets the no-direction
\* diagnostic and leaves the pointer at (0,0).
C17_GThenNoDirection ==
    [][/\ FirstStepOfG => needs_input' /\ <<x', y'>> = <<0, 0>>
       /\ InputAToG => ~needs_input'
       /\ StepAfterInputA
            => /\ stdin' = <<>>
               /\ code' = code
               /\ <<x', y'>> = <<0, 0>>
               /\ error'.msg = NoDirection]_vars

\* The step after the awaited input_char has run on the program "G".
C17_Witness ==
    /\ OnlyG
    /\ last = "step"
    /\ began.awaited
    /\ began.instr = sym["G"]
    /\ stdin = <<>>
    /\ ~needs_input

\* C18: counting from the last __init__ or reset, the k-th code G and g
\* take from the queue is the k-th code supplied by input_char and
\* input_string (a string counting as its codes in order), and the codes
\* not yet taken wait in the queue in the order they were supplied.
C18_InputIsFifo ==
    /\ Len(consumed) <= Len(supplied)
    /\ \A k \in 1..Len(consumed) : consumed[k] = supplied[k]
    /\ supplied = consumed \o stdin

\* input_string("zA"), a read, input_char(0x110000), two reads: the three
\* codes have been taken in the order they were supplied.
C18_Witness ==
    /\ last = "step"
    /\ consumed = <<sym["z"], sym["A"], MaxUnicode + 1>>
    /\ stdin = <<>>
    /\ code[1][2] = sym["z"]
    /\ code[3][3] = sym["A"]
    /\ code[1][4] = MaxUnicode + 1

\* Every row of the grid has COLUMNS cells.
RowsAreFull == \A yy \in 1..Len(code) : Len(code[yy]) = COLUMNS

\* The grid is the given source lines, each padded with spaces or cut to
\* COLUMNS cells.
PaddedOrCut(lines) ==
    /\ Len(code) = Len(lines)
    /\ \A yy \in 1..Len(lines) : \A xx \in 1..COLUMNS :
          code[yy][xx] = IF xx <= Len(lines[yy]) THEN lines[yy][xx] ELSE 32

\* Right after construction the grid is the lines of some program.
LoadedFromLines == last = "__init__" => \E lines \in Programs : PaddedOrCut(lines)

\* Only new_line changes the number of rows: it adds one row of COLUMNS
\* spaces below the others.
RowCountChange ==
    IF last' = "new_line"
    THEN /\ Len(code') = Len(code) + 1
         /\ \A yy \in 1..Len(code) : code'[yy] = code[yy]
         /\ \A xx \in 1..COLUMNS : code'[Len(code')][xx] = 32
    ELSE Len(code') = Len(code)

\* C19: in every reachable state every row has exactly COLUMNS cells, the
\* source lines having been padded with spaces or cut to that width; step,
\* reset, input_char and input_string never change the number of rows, and
\* new_line adds exactly one row of COLUMNS spaces.
C19_GridShape ==
    /\ [](RowsAreFull /\ LoadedFromLines)
    /\ [][RowCountChange]_vars

\* A line was appended under the cut line of COLUMNS + 1 characters after
\* the program had run a step.
C19_Witness ==
    /\ last = "new_line"
    /\ began.last = "step"
    /\ Len(code) = 2
    /\ code[1][COLUMNS] = sym["j"]
    /\ dx = 1

\* The grid is as construction from some source lines leaves it.
BuiltFromLines == \E lines \in Programs : PaddedOrCut(lines)

\* C20: saving a grid built by construction from source lines with
\* code_to_string and constructing a machine from what was saved raises
\* nothing and gives a grid with the same rows, cell for cell; and whatever
\* grid is saved and loaded again without an exception comes back the same.
C20_RoundTrip ==
    [][last' = "reload"
        => /\ BuiltFromLines
                => /\ raised' = NoExc
                   /\ Len(code') = Len(code)
                   /\ \A yy \in 1..Len(code) : \A xx \in 1..COLUMNS :
                         code'[yy][xx] = code[yy][xx]
           /\ raised' = NoExc => code' = code]_vars

\* The grid of the two lines with leading and trailing spaces has been
\* saved and loaded again as it was built.
C20_Witness ==
    /\ last = "reload"
    /\ raised = NoExc
    /\ PaddedOrCut(<<Str("lSfj"), Str("  zh")>>)

\* The State object as the caller reads it.
MonoInstr == IF is_valid(mono, mono.x, mono.y) THEN instruction(mono) ELSE None

MonoBlocked == done(mono) \/ mono.error # NoError \/ mono.needs_input

\* What C21 says of a step on # that takes an engine from s to t.
DirectiveMarker(s, t) ==
    IF s.x = 0 /\ s.y = 0 /\ get(s, 1, 0) = sym["!"]
    THEN /\ t.dx = 0 /\ t.dy = 1
         /\ t.x = 0 /\ t.y = 1
         /\ t.error = NoError /\ ~t.needs_input
         /\ t.stack = s.stack /\ t.code = s.code
         /\ t.stdin = s.stdin /\ t.stdout = s.stdout
    ELSE t.error.msg = InvalidInstruction /\ t.x = s.x /\ t.y = s.y

\* C21 as stated, of both engines: step on # at (0,0) with ! in (1,0) sets
\* the direction to (0,1) and moves the pointer down one row with no other
\* effect; step on # anywhere else, or at (0,0) without ! to its right,
\* sets the invalid-instruction diagnostic and leaves the pointer.
C21_DirectiveMarker ==
    [][last' = "step"
        => /\ (~IsBlocked /\ Instr = sym["#"]) => DirectiveMarker(Self, Self')
           /\ (~MonoBlocked /\ MonoInstr = sym["#"])
                => DirectiveMarker(mono, mono')]_vars

\* The batch loop has ended: the script has run to its end, or an exception
\* has ended the process.
BatchOver == batch.pc \in {"exit", "raised"}

\* C22 as stated: once the State object run by the batch loop is done, or
\* in error, or asks for input after the end of input has been queued, the
\* loop ends.
C22_BatchLoopExits ==
    (batch.pc # "main"
        /\ (done(mono) \/ mono.error # NoError
              \/ (batch.eof /\ mono.needs_input)))
      ~> BatchOver

\* The direction H, L, K and J set.
JumpDx == IF Instr = sym["H"] THEN -1 ELSE IF Instr = sym["L"] THEN 1 ELSE 0

JumpDy == IF Instr = sym["K"] THEN -1 ELSE IF Instr = sym["J"] THEN 1 ELSE 0

\* The distances, from the pointer in that direction, of the cells of the
\* grid that equal the stack top.
Matches ==
    {k \in 1..LongerSide :
        LET px == x + k * JumpDx
            py == y + k * JumpDy
        IN  /\ 0 <= py /\ py < Len(code)
            /\ 0 <= px /\ px < COLUMNS
            /\ code[py + 1][px + 1] = stack[Len(stack)]}

\* In an action, a step that runs H, L, K or J with something on the stack.
JumpStep == last' = "step" /\ ~IsBlocked /\ Instr \in Jumps /\ stack # <<>>

\* In an action, what C23 says of the scan: the stack is as it was, and the
\* scan stops on the nearest cell beyond the instruction's own that equals
\* the stack top, or leaves the grid if there is none.
LandsOnNearest ==
    /\ stack' = stack
    /\ scan'.ran
    /\ IF Matches = {} THEN error'.msg = JumpedOut
       ELSE /\ scan'.x = x + First(Matches) * JumpDx
            /\ scan'.y = y + First(Matches) * JumpDy
            /\ error'.msg # JumpedOut

\* C23 as stated: H, L, K, J with something on the stack stop their scan on
\* the nearest cell strictly beyond their own that equals the stack top and
\* leave the stack as it was; when the step ends with no diagnostic and not
\* done, the pointer is on a cell equal to the stack top.
C23_JumpRestsOnMatch ==
    [][JumpStep
        => /\ LandsOnNearest
           /\ (error' = NoError /\ ~IsDone')
                => code'[y' + 1][x' + 1] = stack'[Len(stack')]]_vars

\* C23 as amended: ... when the scan has landed on q the pointer rests
\* there; when it has landed on another cell the move that ends the step
\* takes the pointer one cell further in the direction of the jump, with
\* no diagnostic, or, where the grid ends, sets the out-of-bounds
\* diagnostic and leaves the pointer on the cell the scan landed on.
C23_JumpLandsThenMoves ==
    [][JumpStep
        => /\ LandsOnNearest
           /\ Matches # {}
                => LET lx == x + First(Matches) * JumpDx
                       ly == y + First(Matches) * JumpDy
                   IN  IF code[ly + 1][lx + 1] = sym["q"]
                       THEN <<x', y'>> = <<lx, ly>> /\ error' = NoError
                       ELSE IF /\ 0 <= ly + JumpDy /\ ly + JumpDy < Len(code)
                               /\ 0 <= lx + JumpDx /\ lx + JumpDx < COLUMNS
                       THEN /\ <<x', y'>> = <<lx + JumpDx, ly + JumpDy>>
                            /\ error' = NoError
                       ELSE /\ <<x', y'>> = <<lx, ly>>
                            /\ error'.msg = MovedOut]_vars

\* L with its own symbol on the stack has passed a space, landed on the
\* second L and left the pointer on the space after it.
C23_Witness ==
    /\ last = "step"
    /\ began.instr = sym["L"]
    /\ stack = <<sym["L"]>>
    /\ scan.ran
    /\ <<scan.x, scan.y>> = <<4, 0>>
    /\ <<x, y>> = <<5, 0>>
    /\ Instr = sym[" "]
    /\ error = NoError

\* How many of done, error set and needs_input hold.
StatusCount ==
    (IF IsDone THEN 1 ELSE 0) + (IF error # NoError THEN 1 ELSE 0)
        + (IF needs_input THEN 1 ELSE 0)

\* C24 as stated: in every reachable state at most one of done, error set
\* and needs_input holds, so a machine with q under the pointer carries no
\* diagnostic; and step on a machine with q under the pointer does not move
\* the pointer.
C24_OneStatusAtATime ==
    /\ [](StatusCount <= 1)
    /\ [][(last' = "step" /\ IsDone) => (x' = x /\ y' = y)]_vars

\* The instructions that write the cell above, and those that write the
\* cell below.
WriteAbove == {sym["E"], sym["F"], sym["G"]}

WriteBelow == {sym["e"], sym["f"], sym["g"]}

Pops == {sym["F"], sym["f"]}

\* In an action, a step that runs a writing instruction which has what it
\* needs (F and f a stack top, G and g a queued code).
WriteStep ==
    /\ last' = "step"
    /\ ~IsBlocked
    /\ Instr \in WriteAbove \cup WriteBelow
    /\ Instr \in Pops => stack # <<>>
    /\ Instr \in Inputs => stdin # <<>>

\* The row of the cell that instruction writes.
TargetY == IF Instr \in WriteAbove THEN y - 1 ELSE y + 1

\* In an action, the step ends with the move of a machine that its
\* dispatch has left unblocked, from where the step began.
MovesNormally ==
    IF dx' = 0 /\ dy' = 0
    THEN error'.msg = NoDirection /\ x' = x /\ y' = y
    ELSE IF ~(/\ 0 <= y + dy' /\ y + dy' < Len(code')
              /\ 0 <= x + dx' /\ x + dx' < COLUMNS)
    THEN error'.msg = MovedOut /\ x' = x /\ y' = y
    ELSE x' = x + dx' /\ y' = y + dy' /\ error' = NoError

\* C25: E, e, F, f, G, g whose target cell is outside the grid change no
\* cell; F and f still pop the stack top and G and g still take the head of
\* the queue; nothing else changes, the dispatch sets no diagnostic, and
\* the pointer then moves as after any instruction.
C25_DroppedWrites ==
    [][(WriteStep /\ (TargetY < 0 \/ TargetY >= Len(code)))
        => /\ code' = code
           /\ stack' = IF Instr \in Pops
                       THEN SubSeq(stack, 1, Len(stack) - 1) ELSE stack
           /\ stdin' = IF Instr \in Inputs THEN Tail(stdin) ELSE stdin
           /\ UNCHANGED <<stdout, dx, dy>>
           /\ ~needs_input'
           /\ raised' = NoExc
           /\ MovesNormally]_vars

\* G in the first row has taken 'A' from the queue, written it nowhere and
\* let the pointer move on.
C25_Witness ==
    /\ last = "step"
    /\ began.instr = sym["G"]
    /\ y = 0
    /\ x = 2
    /\ consumed = <<sym["A"]>>
    /\ error = NoError
    /\ \A yy \in 1..Len(code) : \A xx \in 1..COLUMNS : code[yy][xx] # sym["A"]

\* C26: a step changes at most one cell of the grid, and then only the
\* cell right above (G, E, F) or right below (g, e, f) where the pointer was
\* when the step began; a step of any other instruction, and a step of a
\* blocked machine, leaves the whole grid as it was, and no step changes
\* the cell the pointer was on.
C26_StepWritesOneAdjacentCell ==
    [][last' = "step"
        => \/ code' = code
           \/ /\ ~IsBlocked
              /\ Instr \in WriteAbove \cup WriteBelow
              /\ 0 <= TargetY /\ TargetY < Len(code)
              /\ TargetY # y
              /\ code' = [code EXCEPT
                            ![TargetY + 1][x + 1] = code'[TargetY + 1][x + 1]]
       ]_vars

\* f has popped 33 - 122 into the cell below it, (3,1), which held a space.
C26_Witness ==
    /\ last = "step"
    /\ began.instr = sym["f"]
    /\ <<x, y>> = <<4, 0>>
    /\ Len(code) = 2
    /\ code[2][4] = 33 - 122
    /\ stack = <<>>

Adds == {sym["A"], sym["a"]}

Subtracts == {sym["R"], sym["r"]}

\* The row of the cell A, R (above) and a, r (below) read.
OperandY == IF Instr \in {sym["A"], sym["R"]} THEN y - 1 ELSE y + 1

\* In an action, a step that runs A, a, R or r with something on the stack
\* and its operand cell inside the grid.
ArithmeticStep ==
    /\ last' = "step"
    /\ ~IsBlocked
    /\ Instr \in Adds \cup Subtracts
    /\ stack # <<>>
    /\ 0 <= OperandY /\ OperandY < Len(code)

Prints == {sym["P"], sym["p"]}

\* C28: but for reset, every call leaves the output as it was or with one
\* character added at its end, so what was written remains the beginning
\* of what is written later; only a step of P or p that sets no
\* unprintable-output diagnostic adds a character.
C28_OutputIsAppendOnly ==
    [][last' # "reset"
        => /\ \/ stdout' = stdout
              \/ /\ Len(stdout') = Len(stdout) + 1
                 /\ SubSeq(stdout', 1, Len(stdout)) = stdout
           /\ stdout' # stdout
                => /\ last' = "step"
                   /\ ~IsBlocked
                   /\ Instr \in Prints
                   /\ error'.msg # Unprintable]_vars

\* The second p has printed the @ below it after the A of the first.
C28_Witness ==
    /\ last = "step"
    /\ began.instr = sym["p"]
    /\ stdout = <<sym["A"], sym["@"]>>
    /\ error = NoError

\* The four unit directions.
UnitDirections == {<<-1, 0>>, <<1, 0>>, <<0, -1>>, <<0, 1>>}

\* The instructions that set the direction whatever it was.
SetsDirection ==
    {sym[c] : c \in {"h", "l", "k", "j", "H", "L", "K", "J"}}

\* C29: in every reachable state the direction is (0,0) or one of the four
\* unit vectors, and the pointer is away from (0,0) only with a direction
\* that is not (0,0); a direction that is not (0,0) stays a unit vector
\* until reset (or until a new machine is constructed), and a step of h, l, k, j, H, L, K or J leaves the direction
\* a unit vector.
C29_DirectionInvariant ==
    /\ [](/\ <<dx, dy>> \in UnitDirections \cup {<<0, 0>>}
          /\ <<x, y>> # <<0, 0>> => <<dx, dy>> # <<0, 0>>)
    /\ [][/\ (last' \notin {"reset", "reload"} /\ <<dx, dy>> # <<0, 0>>)
               => <<dx', dy'>> \in UnitDirections
          /\ (last' = "step" /\ ~IsBlocked /\ Instr \in SetsDirection)
               => <<dx', dy'>> \in UnitDirections]_vars

\* x has turned the pointer upwards in the loop, away from the origin.
C29_Witness ==
    /\ last = "step"
    /\ began.instr = sym["x"]
    /\ <<dx, dy>> = <<0, -1>>
    /\ <<x, y>> # <<0, 0>>
    /\ error = NoError

\* The program read from the file has no # in it.
HashFree ==
    \A yy \in 1..Len(program) : \A xx \in 1..Len(program[yy]) :
        program[yy][xx] # sym["#"]

\* The two engines are in the same state as far as a caller can tell them
\* apart: pointer, direction, stack, grid, output, queue, needs_input, done,
\* and whether a diagnostic is set and which kind.
EnginesAgree ==
    /\ <<mono.x, mono.y, mono.dx, mono.dy>> = <<x, y, dx, dy>>
    /\ mono.stack = stack
    /\ mono.stdout = stdout
    /\ mono.stdin = stdin
    /\ mono.needs_input = needs_input
    /\ mono.error.msg = error.msg
    /\ done(mono) = IsDone
    /\ mono.code = code

\* C30 as stated: given a program with no # in it and the same calls of
\* step, reset and input_char, State and ArghInterpreter are in the same
\* state after each call.
C30_EnginesAgree == HashFree => EnginesAgree

====
